---- MODULE Spec2Model ----
(***************************************************************************)
(* Model of the HTML structural heuristic analyzer of src/dist/index.js:   *)
(* content_density_evaluator and accessibility_surface_check.              *)
(*                                                                         *)
(* A markup string is a sequence of one-character strings; every regular   *)
(* expression of the source is an operator over such sequences that        *)
(* computes what the JavaScript regex engine computes for it.  A value the *)
(* source names once and reads several times is a parameter of the         *)
(* operator that reads it.                                                 *)
(***************************************************************************)
EXTENDS Integers, Sequences, FiniteSets, TLC

\* ------------------------------------------------------------------------
\* Characters and character classes (JavaScript \w, \s, and the i flag)
\* ------------------------------------------------------------------------

LowerLetters ==
  << "a","b","c","d","e","f","g","h","i","j","k","l","m",
     "n","o","p","q","r","s","t","u","v","w","x","y","z" >>

UpperLetters ==
  << "A","B","C","D","E","F","G","H","I","J","K","L","M",
     "N","O","P","Q","R","S","T","U","V","W","X","Y","Z" >>

UpperSet == { UpperLetters[i] : i \in DOMAIN UpperLetters }

\* \w of the regex engine
WordChars ==
  { LowerLetters[i] : i \in DOMAIN LowerLetters } \cup UpperSet
    \cup { "0","1","2","3","4","5","6","7","8","9","_" }

IsWord(c) == c \in WordChars

\* \s of the regex engine (and the characters String.prototype.trim removes)
IsSpace(c) == c \in { " ", "\n", "\t" }

\* Canonicalisation under the i flag: letters compare without case
Lower(c) ==
  IF c \in UpperSet
    THEN LowerLetters[CHOOSE i \in DOMAIN UpperLetters : UpperLetters[i] = c]
    ELSE c

\* The least element of a set of positions, 0 for the empty set
MinOrZero(S) == IF S = {} THEN 0 ELSE CHOOSE x \in S : \A y \in S : x <= y

\* The greatest element of a set of positions, 0 for the empty set
MaxOrZero(S) == IF S = {} THEN 0 ELSE CHOOSE x \in S : \A y \in S : y <= x

\* ------------------------------------------------------------------------
\* Regex building blocks
\* ------------------------------------------------------------------------

\* The literal lit (given in lower case) matches s at position i under the i flag
MatchesAt(s, i, lit) ==
  /\ i >= 1
  /\ i + Len(lit) - 1 <= Len(s)
  /\ \A k \in 1..Len(lit) : Lower(s[i + k - 1]) = lit[k]

\* s has a word character at position i
WordAt(s, i) == i >= 1 /\ i <= Len(s) /\ IsWord(s[i])

\* \b between s[i-1] and s[i]
WordBoundaryAt(s, i) == WordAt(s, i - 1) # WordAt(s, i)

\* Position of the first character c at or after from, 0 when there is none
FirstChar(s, from, c) == MinOrZero({ k \in from..Len(s) : s[k] = c })

\* Position of the first match of the literal at or after from, 0 when none
FirstLiteral(s, from, lit) == MinOrZero({ k \in from..Len(s) : MatchesAt(s, k, lit) })

\* The first non-space position in a set of positions, or past the end of s
FirstOrEnd(s, S) == IF S = {} THEN Len(s) + 1 ELSE MinOrZero(S)

\* \s* starting at i: the position of the first non-space character (or Len+1)
SkipSpaces(s, i) == FirstOrEnd(s, { k \in i..Len(s) : ~IsSpace(s[k]) })

\* A regex that did not match
NoMatch == [start |-> 0]

Matched(m) == m.start # 0

\* ------------------------------------------------------------------------
\* <tag\b[^>]*>([\s\S]*?)<\/tag>   (flags gi)
\* ------------------------------------------------------------------------

OpenTag(tag) == <<"<">> \o tag

CloseTag(tag) == <<"<", "/">> \o tag \o <<">">>

\* ([\s\S]*?)<\/tag> after an opening tag i..gt: cs is the first closing tag
TagClosed(i, gt, cs, tag) ==
  IF cs = 0 THEN NoMatch
  ELSE [start |-> i, openEnd |-> gt, closeStart |-> cs, end |-> cs + Len(tag) + 2]

\* ([\s\S]*) taken greedily: the content runs to the last closing tag
TagOpened_Greedy(s, i, gt, tag) ==
  IF gt = 0 THEN NoMatch
  ELSE TagClosed(i, gt, MaxOrZero({ k \in (gt + 1)..Len(s) : MatchesAt(s, k, CloseTag(tag)) }),
                 tag)

\* [^>]*> after "<tag" at i: gt is the first ">"
TagOpened(s, i, gt, tag) ==
  IF gt = 0 THEN NoMatch
  ELSE TagClosed(i, gt, FirstLiteral(s, gt + 1, CloseTag(tag)), tag)

\* The match that starts at position i, or NoMatch
TagMatchAt(s, i, tag) ==
  IF MatchesAt(s, i, OpenTag(tag)) /\ WordBoundaryAt(s, i + Len(tag) + 1)
    THEN TagOpened(s, i, FirstChar(s, i + Len(tag) + 1, ">"), tag)
    ELSE NoMatch

\* The first position at or after from that holds <tag\b, 0 when none
FirstOpenTag(s, from, tag) ==
  MinOrZero({ i \in from..Len(s) :
                MatchesAt(s, i, OpenTag(tag)) /\ WordBoundaryAt(s, i + Len(tag) + 1) })

\* regex.exec with lastIndex = from - 1: the leftmost match at or after from.
\* The engine tries the start positions in turn.  Where <tag\b stands first,
\* the rest of the pattern takes the first ">" and then the first closing
\* tag; if one of them is missing there, it is missing for every later start
\* too, so the first <tag\b decides the match.
TagExec(s, from, tag) == TagMatchAt(s, FirstOpenTag(s, from, tag), tag)

\* while ((match = regex.exec(html)) !== null): the matches from m on
RECURSIVE MatchList(_, _, _)
MatchList(s, m, tag) ==
  IF ~Matched(m) THEN << >>
  ELSE <<m>> \o MatchList(s, TagExec(s, m.end + 1, tag), tag)

\* All matches of the global regex, in order
TagMatches(s, tag) == MatchList(s, TagExec(s, 1, tag), tag)

\* out.push(match[1]) for every match
Captures(s, ms) ==
  [k \in 1..Len(ms) |-> SubSeq(s, ms[k].openEnd + 1, ms[k].closeStart - 1)]

getTagContents(html, tag) == Captures(html, TagMatches(html, tag))

\* ------------------------------------------------------------------------
\* stripTags: s.replace(/<[^>]*>/g, " ").replace(/\s+/g, " ").trim()
\* ------------------------------------------------------------------------

\* s.replace(/<[^>]*>/g, " ") from position from on: lt is the first "<" at or
\* after from, gt the first ">" after it
RECURSIVE ReplaceTagsFrom(_, _, _, _)
ReplaceTagsFrom(s, from, lt, gt) ==
  IF lt = 0 \/ gt = 0 THEN SubSeq(s, from, Len(s))
  ELSE SubSeq(s, from, lt - 1) \o <<" ">>
         \o ReplaceTagsFrom(s, gt + 1, FirstChar(s, gt + 1, "<"),
                            FirstChar(s, FirstChar(s, gt + 1, "<") + 1, ">"))

ReplaceTags(s) ==
  ReplaceTagsFrom(s, 1, FirstChar(s, 1, "<"), FirstChar(s, FirstChar(s, 1, "<") + 1, ">"))

\* Position k of s survives /\s+/ -> " ": it is no whitespace, or it is the
\* first character of a run of whitespace
RunHead(s, k) == ~IsSpace(s[k]) \/ k = 1 \/ ~IsSpace(s[k - 1])

Tagged(s) ==
  [k \in 1..Len(s) |->
     [c |-> IF IsSpace(s[k]) THEN " " ELSE s[k], keep |-> RunHead(s, k)]]

IsKept(e) == e.keep

Untagged(kept) == [k \in 1..Len(kept) |-> kept[k].c]

\* s.replace(/\s+/g, " "): every maximal run of whitespace becomes one space
CollapseSpaces(s) == Untagged(SelectSeq(Tagged(s), IsKept))

\* s without the characters before the first and after the last position of S
Between(s, S) == IF S = {} THEN << >> ELSE SubSeq(s, MinOrZero(S), MaxOrZero(S))

\* String.prototype.trim
Trim(s) == Between(s, { i \in 1..Len(s) : ~IsSpace(s[i]) })

\* The tags replaced last, after the white space is collapsed and trimmed
stripTags_TagsLast(s) == ReplaceTags(Trim(CollapseSpaces(s)))

stripTags(s) == Trim(CollapseSpaces(ReplaceTags(s)))

\* p.split(/\s+/).filter(Boolean).length: the number of whitespace-delimited tokens
WordCountOf(s) ==
  Cardinality({ i \in 1..Len(s) : ~IsSpace(s[i]) /\ (i = 1 \/ IsSpace(s[i - 1])) })

\* ------------------------------------------------------------------------
\* Opening-tag regexes: /<img\b[^>]*>/gi and /<h[1-6]\b[^>]*>/gi
\* ------------------------------------------------------------------------

HeadingDigits == { "1", "2", "3", "4", "5", "6" }

\* parseInt(tagName.replace("h", ""), 10) for tagName in h1..h6
DigitValue(c) ==
  CASE c = "1" -> 1 [] c = "2" -> 2 [] c = "3" -> 3
    [] c = "4" -> 4 [] c = "5" -> 5 [] c = "6" -> 6

ImgName == <<"i", "m", "g">>

\* An opening tag from i to the first ">" at gt
OpenMatch(i, gt) == IF i = 0 \/ gt = 0 THEN NoMatch ELSE [start |-> i, end |-> gt]

\* The leftmost match of /<img\b[^>]*>/i at or after position i, where <img\b
\* stands first (0: nowhere): the tag ends at the first ">"
ImgMatchAt(s, i) == OpenMatch(i, FirstChar(s, i + 4, ">"))

ImgExec(s, from) == ImgMatchAt(s, FirstOpenTag(s, from, ImgName))

\* html.match(/<img\b[^>]*>/gi) || []: the matched tags from m on, in order
RECURSIVE ImgList(_, _)
ImgList(s, m) ==
  IF ~Matched(m) THEN << >>
  ELSE <<SubSeq(s, m.start, m.end)>> \o ImgList(s, ImgExec(s, m.end + 1))

ImgTags(s) == ImgList(s, ImgExec(s, 1))

\* <h[1-6]\b stands at position i
HeadingOpenAt(s, i) ==
  /\ MatchesAt(s, i, <<"<", "h">>)
  /\ i + 2 <= Len(s)
  /\ s[i + 2] \in HeadingDigits
  /\ WordBoundaryAt(s, i + 3)

FirstHeadingOpen(s, from) == MinOrZero({ i \in from..Len(s) : HeadingOpenAt(s, i) })

\* The leftmost match of /<h[1-6]\b[^>]*>/i at or after from
HeadingOpenMatchAt(s, i) == OpenMatch(i, FirstChar(s, i + 3, ">"))

HeadingOpenExec(s, from) == HeadingOpenMatchAt(s, FirstHeadingOpen(s, from))

\* (html.match(/<h[1-6]\b[^>]*>/gi) || []).length, counting from the match m on
RECURSIVE HeadingOpenList(_, _)
HeadingOpenList(s, m) ==
  IF ~Matched(m) THEN 0
  ELSE 1 + HeadingOpenList(s, HeadingOpenExec(s, m.end + 1))

HeadingOpenCount(s) == HeadingOpenList(s, HeadingOpenExec(s, 1))

\* ------------------------------------------------------------------------
\* content_density_evaluator, after the page is fetched
\* ------------------------------------------------------------------------

\* arr.join(""): the paragraphs joined without a separator
RECURSIVE JoinWithSpace_NoSeparator(_)
JoinWithSpace_NoSeparator(texts) ==
  IF Len(texts) = 0 THEN << >>
  ELSE texts[1] \o JoinWithSpace_NoSeparator(Tail(texts))

\* arr.join(" ")
RECURSIVE JoinWithSpace(_)
JoinWithSpace(texts) ==
  IF Len(texts) = 0 THEN << >>
  ELSE IF Len(texts) = 1 THEN texts[1]
  ELSE texts[1] \o <<" ">> \o JoinWithSpace(Tail(texts))

\* arr.reduce((a, b) => a + b, 0)
RECURSIVE SumSeq(_)
SumSeq(ns) == IF Len(ns) = 0 THEN 0 ELSE ns[1] + SumSeq(Tail(ns))

StripAll(fragments) == [k \in 1..Len(fragments) |-> stripTags(fragments[k])]

NonEmpty(t) == Len(t) > 0

\* The paragraphs that normalize to the empty string kept in the list
ParagraphTexts_Unfiltered(html) == StripAll(getTagContents(html, <<"p">>))

\* paragraphHTML.map(stripTags).filter(t => t.length > 0)
ParagraphTexts(html) == SelectSeq(StripAll(getTagContents(html, <<"p">>)), NonEmpty)

\* paragraphTexts.join(" ").split(/\s+/).filter(Boolean).length
WordCount(html) == WordCountOf(JoinWithSpace(ParagraphTexts(html)))

ImageCount(html) == Len(ImgTags(html))

HeadingCount(html) == HeadingOpenCount(html)

WordCounts(texts) == [k \in 1..Len(texts) |-> WordCountOf(texts[k])]

ParagraphWordCounts(html) == WordCounts(ParagraphTexts(html))

\* The mean of counts as an exact fraction num/den, 0/1 for no counts
Average(counts) ==
  IF Len(counts) = 0 THEN [num |-> 0, den |-> 1]
  ELSE [num |-> SumSeq(counts), den |-> Len(counts)]

AvgParagraphLength(html) == Average(ParagraphWordCounts(html))

\* avg > k for the fraction avg
AvgGreater(avg, k) == avg.num > k * avg.den

\* Math.round(avg): the nearest integer, halves rounded up
RoundAvg(avg) == (2 * avg.num + avg.den) \div (2 * avg.den)

\* The value of score after one `if (cond) score -= penalty`
Penalised(score, cond, penalty) == IF cond THEN score - penalty ELSE score

\* The clamp left out
ClampAtZero_Missing(score) == score

\* if (score < 0) score = 0
ClampAtZero(score) == IF score < 0 THEN 0 ELSE score

\* The paragraph penalty taken at the threshold of the paragraph note
ScanabilityScore_NoteThreshold(avg, imageCount, headingCount) ==
  ClampAtZero(
    Penalised(Penalised(Penalised(100, AvgGreater(avg, 80), 20),
                        imageCount = 0, 20),
              headingCount = 0, 20))

\* The scanability heuristic
ScanabilityScore(avg, imageCount, headingCount) ==
  ClampAtZero(
    Penalised(Penalised(Penalised(100, AvgGreater(avg, 100), 20),
                        imageCount = 0, 20),
              headingCount = 0, 20))

\* Notes / recommendations
DensityNotes(avg, imageCount, headingCount) ==
  << IF AvgGreater(avg, 80)
       THEN "Paragraphs are long; consider splitting large blocks of text."
       ELSE "Paragraph length seems reasonable.",
     IF imageCount = 0
       THEN "No images found; consider adding supporting visuals."
       ELSE "Contains imagery to break up text.",
     IF headingCount = 0
       THEN "No headings found; add subheadings to improve scanning."
       ELSE "Has headings to guide the reader." >>

\* The returned record, from the extracted metrics
DensityResult(url, wordCount, imageCount, headingCount, avg) ==
  [ url |-> url,
    wordCount |-> wordCount,
    imageCount |-> imageCount,
    headingCount |-> headingCount,
    avgParagraphLength |-> RoundAvg(avg),
    scanabilityScore |-> ScanabilityScore(avg, imageCount, headingCount),
    notes |-> DensityNotes(avg, imageCount, headingCount) ]

\* The record content_density_evaluator returns for the page html of url
DensityRecord(url, html) ==
  DensityResult(url, WordCount(html), ImageCount(html), HeadingCount(html),
                AvgParagraphLength(html))

\* ------------------------------------------------------------------------
\* accessibility_surface_check, after the page is fetched
\* ------------------------------------------------------------------------

\* The JavaScript null of a regex that did not match
Null == [found |-> FALSE, value |-> << >>]

\* "([^"]*)" with the opening quote q at position open
QuotedAt(s, open, close) ==
  IF close = 0 THEN Null ELSE [found |-> TRUE, value |-> SubSeq(s, open + 1, close - 1)]

\* \s*"([^"]*)" after the "=" : open is the first non-space position
ValueAt(s, open, q) ==
  IF open <= Len(s) /\ s[open] = q
    THEN QuotedAt(s, open, FirstChar(s, open + 1, q))
    ELSE Null

\* \s*=\s*"([^"]*)" after the name: eq is the first non-space position
AssignAt(s, eq, q) ==
  IF eq <= Len(s) /\ s[eq] = "="
    THEN ValueAt(s, SkipSpaces(s, eq + 1), q)
    ELSE Null

\* /\bNAME\s*=\s*Q([^Q]*)Q/i matching at position i.  name is in lower case,
\* q is the quote character.
AttrMatchAt(s, i, name, q) ==
  IF WordBoundaryAt(s, i) /\ MatchesAt(s, i, name)
    THEN AssignAt(s, SkipSpaces(s, i + Len(name)), q)
    ELSE Null

\* tag.match(regex): the capture group of the leftmost match, Null when none
AttrMatch(s, name, q) ==
  AttrMatchAt(s, MinOrZero({ i \in 1..Len(s) : AttrMatchAt(s, i, name, q).found }),
              name, q)

\* double ? double[1] : single ? single[1] : null
FirstFound(double, single) ==
  IF double.found THEN double ELSE IF single.found THEN single ELSE Null

AttrValue(s, name) == FirstFound(AttrMatch(s, name, "\""), AttrMatch(s, name, "'"))

AltName == <<"a", "l", "t">>

AriaLabelName == <<"a", "r", "i", "a", "-", "l", "a", "b", "e", "l">>

ButtonName == <<"b", "u", "t", "t", "o", "n">>

\* altValue === null || altValue.trim() === ""
AltMissing(altValue) == ~altValue.found \/ Trim(altValue.value) = << >>

ImgMissingAlt(imgTag) == AltMissing(AttrValue(imgTag, AltName))

H1Count(html) == Len(TagMatches(html, <<"h", "1">>))

\* imagesMissingAlt++ for every imgTag that passes the test
ImagesMissingAlt(html) == Len(SelectSeq(ImgTags(html), ImgMissingAlt))

\* buttonBlocks.push(btnMatch[0]): the whole <button>...</button> of every match
Blocks(s, ms) == [k \in 1..Len(ms) |-> SubSeq(s, ms[k].start, ms[k].end)]

ButtonBlocks(html) == Blocks(html, TagMatches(html, ButtonName))

\* innerMatch ? innerMatch[1] : ""
InnerHtml(block, innerMatch) ==
  IF Matched(innerMatch)
    THEN SubSeq(block, innerMatch.openEnd + 1, innerMatch.closeStart - 1)
    ELSE << >>

\* innerHtml.replace(/<[^>]*>/g, " ").replace(/\s+/g, " ").trim()
VisibleText(block) ==
  Trim(CollapseSpaces(ReplaceTags(InnerHtml(block, TagExec(block, 1, ButtonName)))))

\* !ariaVal || ariaVal.length === 0
AriaMissing(ariaVal) == ~ariaVal.found \/ Len(ariaVal.value) = 0

\* The test of one block in the loop over buttonBlocks
ButtonUnlabeled(block) ==
  /\ Len(VisibleText(block)) = 0
  /\ AriaMissing(AttrValue(block, AriaLabelName))

UnlabeledButtons(html) == Len(SelectSeq(ButtonBlocks(html), ButtonUnlabeled))

\* ([\s\S]*?)<\/\1> after an opening heading tag i..gt: cs is the first closing
\* tag of the same level
HeadingClosed(s, i, cs) ==
  IF cs = 0 THEN NoMatch
  ELSE [start |-> i, level |-> DigitValue(s[i + 2]), end |-> cs + 4]

\* [^>]*> after <hN at i: gt is the first ">"; \1 matches under the i flag
HeadingOpened(s, i, gt) ==
  IF gt = 0 THEN NoMatch
  ELSE HeadingClosed(s, i, FirstLiteral(s, gt + 1, <<"<", "/", "h", s[i + 2], ">">>))

\* /<(h[1-6])\b[^>]*>([\s\S]*?)<\/\1>/gi matching at position i
HeadingMatchAt(s, i) ==
  IF HeadingOpenAt(s, i) THEN HeadingOpened(s, i, FirstChar(s, i + 3, ">")) ELSE NoMatch

\* headingRegex.exec(html): the leftmost match at or after from.  The engine
\* tries the start positions in turn; i is the first one that holds <h[1-6]\b
\* and m the match that starts there, if any.
RECURSIVE HeadingExecAt(_, _, _)
HeadingExecAt(s, i, m) ==
  IF i = 0 THEN NoMatch
  ELSE IF Matched(m) THEN m
  ELSE HeadingExecAt(s, FirstHeadingOpen(s, i + 1),
                     HeadingMatchAt(s, FirstHeadingOpen(s, i + 1)))

HeadingExec(s, from) ==
  HeadingExecAt(s, FirstHeadingOpen(s, from), HeadingMatchAt(s, FirstHeadingOpen(s, from)))

\* headingLevels.push(level) for every match from m on
RECURSIVE LevelList(_, _)
LevelList(s, m) ==
  IF ~Matched(m) THEN << >>
  ELSE <<m.level>> \o LevelList(s, HeadingExec(s, m.end + 1))

HeadingLevels(s) == LevelList(s, HeadingExec(s, 1))

\* A jump of exactly 2 levels counted too
IsJump_OffByOne(prev, curr) == curr - prev >= 2

\* We consider a "jump" if it skips more than 2 levels
IsJump(prev, curr) == curr - prev > 2

\* for (let i = 1; i < headingLevels.length; i++) ..., from the pair ending at i
RECURSIVE CountJumps(_, _)
CountJumps(levels, i) ==
  IF i > Len(levels) THEN 0
  ELSE (IF IsJump(levels[i - 1], levels[i]) THEN 1 ELSE 0) + CountJumps(levels, i + 1)

HeadingOrderIssues(html) == CountJumps(HeadingLevels(html), 2)

\* The second h1 test written as an else branch of the first and taken
\* from three h1 up
AccessibilityScore_ElseBranch(h1Count, imagesMissingAlt, unlabeledButtons, headingOrderIssues) ==
  ClampAtZero(
    (IF h1Count = 0 THEN 100 - 10 ELSE IF h1Count > 2 THEN 100 - 10 ELSE 100)
      - imagesMissingAlt * 2
      - unlabeledButtons * 3
      - headingOrderIssues * 5)

\* The score heuristic (0-100)
AccessibilityScore(h1Count, imagesMissingAlt, unlabeledButtons, headingOrderIssues) ==
  ClampAtZero(
    Penalised(Penalised(100, h1Count = 0, 10), h1Count > 1, 10)
      - imagesMissingAlt * 2
      - unlabeledButtons * 3
      - headingOrderIssues * 5)

\* The alt-text note pushed only when images miss their alt text
AccessibilityNotes_NoElse(h1Count, imagesMissingAlt, unlabeledButtons, headingOrderIssues) ==
  << IF h1Count = 0
       THEN <<"No <h1> found - every page should have a single main heading.">>
       ELSE IF h1Count > 1
         THEN <<"Multiple <h1> elements found - usually you only want one.">>
         ELSE <<"Single <h1> present">> >>
    \o (IF imagesMissingAlt > 0
          THEN << <<imagesMissingAlt, " image(s) missing alt text.">> >>
          ELSE << >>)
    \o << IF unlabeledButtons > 0
            THEN <<unlabeledButtons, " <button> element(s) have no visible text or aria-label.">>
            ELSE <<"All buttons appear to have labels or aria-labels">>,
          IF headingOrderIssues > 0
            THEN <<headingOrderIssues, " heading level jump(s) detected (e.g. h2 -> h5).">>
            ELSE <<"Heading level progression mostly looks consistent">> >>

\* Human-readable notes.  A note with a count in it is the pair of the count
\* and the text after it; the dash and the check mark of the source's strings
\* are written in ASCII.
AccessibilityNotes(h1Count, imagesMissingAlt, unlabeledButtons, headingOrderIssues) ==
  << IF h1Count = 0
       THEN <<"No <h1> found - every page should have a single main heading.">>
       ELSE IF h1Count > 1
         THEN <<"Multiple <h1> elements found - usually you only want one.">>
         ELSE <<"Single <h1> present">>,
     IF imagesMissingAlt > 0
       THEN <<imagesMissingAlt, " image(s) missing alt text.">>
       ELSE <<"All images appear to include alt text">>,
     IF unlabeledButtons > 0
       THEN <<unlabeledButtons, " <button> element(s) have no visible text or aria-label.">>
       ELSE <<"All buttons appear to have labels or aria-labels">>,
     IF headingOrderIssues > 0
       THEN <<headingOrderIssues, " heading level jump(s) detected (e.g. h2 -> h5).">>
       ELSE <<"Heading level progression mostly looks consistent">> >>

\* The returned record, from the extracted counts
AccessibilityResult(url, h1Count, imagesMissingAlt, unlabeledButtons, headingOrderIssues) ==
  [ url |-> url,
    h1Count |-> h1Count,
    imagesMissingAlt |-> imagesMissingAlt,
    unlabeledButtons |-> unlabeledButtons,
    headingOrderIssues |-> headingOrderIssues,
    accessibilityScore |->
      AccessibilityScore(h1Count, imagesMissingAlt, unlabeledButtons, headingOrderIssues),
    notes |->
      AccessibilityNotes(h1Count, imagesMissingAlt, unlabeledButtons, headingOrderIssues) ]

\* The record accessibility_surface_check returns for the page html of url
AccessibilityRecord(url, html) ==
  AccessibilityResult(url, H1Count(html), ImagesMissingAlt(html), UnlabeledButtons(html),
                      HeadingOrderIssues(html))

\* ------------------------------------------------------------------------
\* Pages: the markup a retrieval can return
\* ------------------------------------------------------------------------

\* <h1>t</h1>
H1Elem == <<"<","h","1",">","t","<","/","h","1",">">>

\* <h2>t</h2>
H2Elem == <<"<","h","2",">","t","<","/","h","2",">">>

\* <H3 id="a">t</h3>
H3UpperElem == <<"<","H","3"," ","i","d","=","\"","a","\"",">","t","<","/","h","3",">">>

\* <h5>t</h5>
H5Elem == <<"<","h","5",">","t","<","/","h","5",">">>

\* <h4>
H4Open == <<"<","h","4",">">>

\* </h4>
H4Close == <<"<","/","h","4",">">>

\* <img>
ImgNoAlt == <<"<","i","m","g",">">>

\* <img src="a">
ImgSrc == <<"<","i","m","g"," ","s","r","c","=","\"","a","\"",">">>

\* <img alt="c">
ImgAlt == <<"<","i","m","g"," ","a","l","t","=","\"","c","\"",">">>

\* <img alt="">
ImgEmptyAlt == <<"<","i","m","g"," ","a","l","t","=","\"","\"",">">>

\* <img alt = " ">
ImgBlankAlt == <<"<","i","m","g"," ","a","l","t"," ","="," ","\""," ","\"",">">>

\* <IMG ALT='c'>
ImgSingleUpper == <<"<","I","M","G"," ","A","L","T","=","'","c","'",">">>

\* <img data-alt="c">
ImgDataAlt == <<"<","i","m","g"," ","d","a","t","a","-","a","l","t","=","\"","c","\"",">">>

\* <img alt='c' data-alt="">
ImgSingleThenData == <<"<","i","m","g"," ","a","l","t","=","'","c","'"," ","d","a","t","a","-","a","l","t","=","\"","\"",">">>

\* <img
ImgOpen == <<"<","i","m","g">>

\* <button></button>
EmptyButton == <<"<","b","u","t","t","o","n",">","<","/","b","u","t","t","o","n",">">>

\* <button>
BtnOpen == <<"<","b","u","t","t","o","n",">">>

\* </button>
BtnClose == <<"<","/","b","u","t","t","o","n",">">>

\* <p>x y</p>
ParaElem == <<"<","p",">","x"," ","y","<","/","p",">">>

\* <p>Hello <b>world</b></p>
HelloWorld == <<"<","p",">","H","e","l","l","o"," ","<","b",">","w","o","r","l","d","<","/","b",">","<","/","p",">">>

\* <p>
POpen == <<"<","p",">">>

\* </p>
PClose == <<"<","/","p",">">>

\* x
X == <<"x">>

\* <
Lt == <<"<">>

\* >
Gt == <<">">>

\* x 
WordAndSpace == <<"x"," ">>

\* 
EmptyPage == <<>>

\* <button>x</button>
TextButton == <<"<","b","u","t","t","o","n",">","x","<","/","b","u","t","t","o","n",">">>

\* <button aria-label="c"></button>
AriaButton == <<"<","b","u","t","t","o","n"," ","a","r","i","a","-","l","a","b","e","l","=","\"","c","\"",">","<","/","b","u","t","t","o","n",">">>

\* <BUTTON ARIA-LABEL=''> </BUTTON>
EmptyAriaButton == <<"<","B","U","T","T","O","N"," ","A","R","I","A","-","L","A","B","E","L","=","'","'",">"," ","<","/","B","U","T","T","O","N",">">>

\* <button><i aria-label="c"></i></button>
IconButton == <<"<","b","u","t","t","o","n",">","<","i"," ","a","r","i","a","-","l","a","b","e","l","=","\"","c","\"",">","<","/","i",">","<","/","b","u","t","t","o","n",">">>

\* <button><b> </b></button>
BlankButton == <<"<","b","u","t","t","o","n",">","<","b",">"," ","<","/","b",">","<","/","b","u","t","t","o","n",">">>

\* <P id="a">x</P>
UpperPara == <<"<","P"," ","i","d","=","\"","a","\"",">","x","<","/","P",">">>

\* <p> <b> </b>\n</p>
BlankPara == <<"<","p",">"," ","<","b",">"," ","<","/","b",">","\n","<","/","p",">">>

\* The longest page of each family, in fragments
MaxScorePieces == 3

MaxImgPieces == 2

MaxBtnPieces == 2

MaxHeadPieces == 3

MaxParaPieces == 2

MaxShapePieces == 2

MaxStripPieces == 4

\* The number of concurrent analysis calls
NCalls == 2

\* Every concatenation of at most n fragments of P
RECURSIVE Concats(_, _)
Concats(P, n) ==
  IF n = 0 THEN { << >> }
  ELSE LET shorter == Concats(P, n - 1)
       IN  shorter \cup { d \o f : d \in shorter, f \in P }

RECURSIVE Repeat(_, _)
Repeat(u, k) == IF k = 0 THEN << >> ELSE u \o Repeat(u, k - 1)

ScorePieces == { H1Elem, H5Elem, ImgNoAlt, ImgAlt, EmptyButton, ParaElem }

ImgPieces ==
  { ImgSrc, ImgEmptyAlt, ImgAlt, ImgBlankAlt, ImgSingleUpper, ImgDataAlt,
    ImgSingleThenData, ImgOpen, Gt, X }

BtnPieces ==
  { EmptyButton, TextButton, AriaButton, EmptyAriaButton, IconButton, BlankButton,
    BtnOpen, BtnClose }

HeadPieces == { H1Elem, H2Elem, H3UpperElem, H5Elem, H4Open, H4Close }

ParaPieces ==
  { ParaElem, UpperPara, BlankPara, HelloWorld, POpen, PClose, X, Lt, Gt }

\* The most copies of each unit in a bulk page
MaxImgCopies == 50

MaxBtnCopies == 32

MaxHeadCopies == 20

\* The most words of a long paragraph
MaxWords == 101

\* The copy counts of the bulk pages of a unit: the ten highest
Copies(max) == { k \in 1..max : k > max - 10 }

\* Pages with many defects of one kind
BulkPages ==
  { Repeat(ImgNoAlt, k) : k \in Copies(MaxImgCopies) }
    \cup { Repeat(EmptyButton, k) : k \in Copies(MaxBtnCopies) }
    \cup { Repeat(H1Elem \o H5Elem, k) : k \in Copies(MaxHeadCopies) }

\* Pages with one long paragraph
LongParagraphPages ==
  { POpen \o Repeat(WordAndSpace, k) \o PClose \o rest :
      k \in { MaxWords - 21, MaxWords - 20, MaxWords - 1, MaxWords },
      rest \in { EmptyPage, ImgAlt \o H1Elem } }

\* A paragraph of k words
LongParagraph(k) == POpen \o Repeat(WordAndSpace, k) \o PClose

\* Pages with three long paragraphs, the last one a word longer or not
UnevenParagraphPages ==
  { LongParagraph(MaxWords - 1) \o LongParagraph(MaxWords - 1) \o LongParagraph(k)
      \o ImgAlt \o H1Elem :
      k \in { MaxWords - 1, MaxWords } }

ScorePages ==
  Concats(ScorePieces, MaxScorePieces) \cup BulkPages \cup LongParagraphPages
    \cup UnevenParagraphPages

ImgPages == Concats(ImgPieces, MaxImgPieces)

BtnPages == Concats(BtnPieces, MaxBtnPieces)

HeadPages == Concats(HeadPieces, MaxHeadPieces)

ParaPages == Concats(ParaPieces, MaxParaPieces)

\* <img alt="c'>
ImgMismatch == <<"<", "i", "m", "g", " ", "a", "l", "t", "=", "\"", "c", "'", ">">>

\* Pieces of markup that is not well formed: text, stray brackets, unclosed
\* and unopened tags, mixed and unbalanced quotes
ShapePieces ==
  { X, Lt, Gt, POpen, PClose, ImgOpen, ImgSingleThenData, ImgMismatch, BtnOpen,
    BtnClose, H4Open }

ShapePages == Concats(ShapePieces, MaxShapePieces)

\* One space
Space == <<" ">>

\* The characters of paragraph text with stray and nested brackets
StripPieces == { Lt, Gt, X, Space }

\* One paragraph around every text of at most MaxStripPieces such characters
StripPages == { POpen \o s \o PClose : s \in Concats(StripPieces, MaxStripPieces) }

\* The pages of the concurrent specification
FewPages == { ImgNoAlt, ParaElem \o H1Elem }

Urls == { "u1", "u2" }

Tools == { "content_density_evaluator", "accessibility_surface_check" }

\* HTTP statuses a retrieval can answer with; res.ok is status in 200..299
Statuses == { 200, 404, 500 }

\* The status test left out: every response taken as a success
Ok_Always(status) == TRUE

Ok(status) == status >= 200 /\ status <= 299

\* ------------------------------------------------------------------------
\* The analysis calls
\* ------------------------------------------------------------------------

VARIABLES
  calls,  \* per call: its position, its parameters, its response, its outcome
  family  \* the family of pages the network answers with

vars == << calls, family >>

\* The pages the network can answer with
Pool ==
  CASE family = "few" -> FewPages
    [] family = "score" -> ScorePages
    [] family = "img" -> ImgPages
    [] family = "btn" -> BtnPages
    [] family = "head" -> HeadPages
    [] family = "para" -> ParaPages
    [] family = "shape" -> ShapePages
    [] family = "strip" -> StripPages

NoResponse == [status |-> 0, body |-> << >>]

NoOutcome == [kind |-> "none"]

\* fetches is the number of times the call has run fetch(url)
IdleCall ==
  [pc |-> "idle", tool |-> "", url |-> "", fetches |-> 0, res |-> NoResponse,
   out |-> NoOutcome]

CallIds == DOMAIN calls

\* throw new Error(`Failed to fetch ${url}: ${res.status}`)
FetchError(url, status) ==
  [kind |-> "error", message |-> << "Failed to fetch ", url, ": ", status >>]

\* fetch(url) itself rejecting (no response at all)
NetworkError == [kind |-> "error", message |-> << "fetch failed" >>]

\* html kept in one variable outside the handlers: a call reads the body
\* another call is waiting with
HtmlOf_Shared(c) ==
  IF \E d \in CallIds \ { c } : calls[d].pc = "text"
    THEN calls[CHOOSE d \in CallIds \ { c } : calls[d].pc = "text"].res.body
    ELSE calls[c].res.body

\* const html = await res.text()
HtmlOf(c) == calls[c].res.body

\* An exception thrown while a page is scanned
ScanError == [kind |-> "error", message |-> << "TypeError" >>]

\* html.match(/<img\b[^>]*>/gi) without `|| []`: .length of null throws on a
\* page without an img tag
Analyse_NoDefault(tool, url, html) ==
  IF tool = "content_density_evaluator"
    THEN IF Len(ImgTags(html)) = 0
           THEN ScanError
           ELSE [kind |-> "record", record |-> DensityRecord(url, html)]
    ELSE [kind |-> "record", record |-> AccessibilityRecord(url, html)]

\* The synchronous part of a scorer: the returned record.  No statement of it
\* throws: every match() is defaulted with `|| []`, every exec() result is
\* read inside its `!== null` loop, innerMatch is tested before it is read.
Analyse(tool, url, html) ==
  IF tool = "content_density_evaluator"
    THEN [kind |-> "record", record |-> DensityRecord(url, html)]
    ELSE [kind |-> "record", record |-> AccessibilityRecord(url, html)]

\* A tool is called with a url: it runs up to `await fetch(url)`
Invoke(c, tool, url) ==
  /\ calls[c].pc = "idle"
  /\ calls' = [calls EXCEPT ![c] =
                 [@ EXCEPT !.pc = "fetch", !.tool = tool, !.url = url, !.fetches = 1]]
  /\ UNCHANGED family

\* The retrieval answers with a status and a body
FetchResolve(c, status, body) ==
  /\ calls[c].pc = "fetch"
  /\ calls' = [calls EXCEPT ![c] =
                 [@ EXCEPT !.pc = "responded", !.res = [status |-> status, body |-> body]]]
  /\ UNCHANGED family

\* A retrieval that failed without a response is tried again, twice at most
FetchReject_Retry(c) ==
  /\ calls[c].pc = "fetch"
  /\ calls' = [calls EXCEPT ![c] =
                 IF calls[c].fetches < 3
                   THEN [@ EXCEPT !.fetches = @ + 1]
                   ELSE [@ EXCEPT !.pc = "failed", !.out = NetworkError]]
  /\ UNCHANGED family

\* The retrieval fails without a response: the await throws
FetchReject(c) ==
  /\ calls[c].pc = "fetch"
  /\ calls' = [calls EXCEPT ![c] = [@ EXCEPT !.pc = "failed", !.out = NetworkError]]
  /\ UNCHANGED family

\* if (!res.ok) throw ...; otherwise run up to `await res.text()`
CheckOk(c) ==
  /\ calls[c].pc = "responded"
  /\ calls' = [calls EXCEPT ![c] =
                 IF Ok(calls[c].res.status)
                   THEN [@ EXCEPT !.pc = "text"]
                   ELSE [@ EXCEPT !.pc = "failed",
                                  !.out = FetchError(calls[c].url, calls[c].res.status)]]
  /\ UNCHANGED family

\* The handler ends: it returns its record, or rejects with what was thrown
Finished(call, out) ==
  [call EXCEPT !.pc = IF out.kind = "record" THEN "done" ELSE "failed", !.out = out]

\* The notes of a record after the notes of earlier calls
WithNotes(out, notes) ==
  [out EXCEPT !.record = [@ EXCEPT !.notes = notes \o @]]

\* The notes array kept outside the handlers and never emptied
Scan_SharedNotes(c) ==
  /\ calls[c].pc = "text"
  /\ calls' = [calls EXCEPT ![c] =
                 Finished(@, WithNotes(
                   Analyse(calls[c].tool, calls[c].url, HtmlOf(c)),
                   IF \E d \in CallIds : calls[d].pc = "done"
                     THEN calls[CHOOSE d \in CallIds : calls[d].pc = "done"].out.record.notes
                     ELSE << >>))]
  /\ UNCHANGED family

\* The body arrives and the page is scanned synchronously; the record is returned
Scan(c) ==
  /\ calls[c].pc = "text"
  /\ calls' = [calls EXCEPT ![c] =
                 Finished(@, Analyse(calls[c].tool, calls[c].url, HtmlOf(c)))]
  /\ UNCHANGED family

Next ==
  \/ \E c \in CallIds, tool \in Tools, url \in Urls : Invoke(c, tool, url)
  \/ \E c \in CallIds, status \in Statuses, body \in Pool :
       FetchResolve(c, status, body)
  \/ \E c \in CallIds : FetchReject(c)
  \/ \E c \in CallIds : CheckOk(c)
  \/ \E c \in CallIds : Scan(c)

InitWith(n, name) ==
  /\ calls = [c \in 1..n |-> IdleCall]
  /\ family = name

\* Concurrent calls over a few pages
Init == InitWith(NCalls, "few")

Spec == Init /\ [][Next]_vars

\* One call over the pages of each family
InitScore == InitWith(1, "score")

SpecScore == InitScore /\ [][Next]_vars

InitImg == InitWith(1, "img")

SpecImg == InitImg /\ [][Next]_vars

InitBtn == InitWith(1, "btn")

SpecBtn == InitBtn /\ [][Next]_vars

InitHead == InitWith(1, "head")

SpecHead == InitHead /\ [][Next]_vars

InitPara == InitWith(1, "para")

SpecPara == InitPara /\ [][Next]_vars

\* One call over the pages of every markup family
InitShape == InitWith(1, "shape")

SpecShape == InitShape /\ [][Next]_vars

\* One call over the pages of one paragraph with stray brackets
InitStrip == InitWith(1, "strip")

SpecStrip == InitStrip /\ [][Next]_vars

\* ------------------------------------------------------------------------
\* Properties
\* ------------------------------------------------------------------------

Density == "content_density_evaluator"

Accessibility == "accessibility_surface_check"

\* The calls of a tool that returned a record
Returned(tool) ==
  { c \in CallIds : calls[c].pc = "done" /\ calls[c].tool = tool }

RecordOf(c) == calls[c].out.record

PageOf(c) == calls[c].res.body

\* 1 when the condition holds, 0 otherwise
Ind(cond) == IF cond THEN 1 ELSE 0

Max0(n) == IF n < 0 THEN 0 ELSE n

\* C1: every returned scanabilityScore and every returned accessibilityScore
\* is an integer from 0 to 100.
C1_ScoresInRange ==
  /\ \A c \in Returned(Density) : RecordOf(c).scanabilityScore \in 0..100
  /\ \A c \in Returned(Accessibility) : RecordOf(c).accessibilityScore \in 0..100

\* A page whose penalties add up to more than 100 was scored
C1_Witness ==
  \E c \in Returned(Accessibility) :
    /\ RecordOf(c).h1Count = 0
    /\ 10 + RecordOf(c).imagesMissingAlt * 2 > 100
    /\ RecordOf(c).accessibilityScore = 0

\* C2: accessibilityScore = max(0, 100 - 10*[h1Count = 0] - 10*[h1Count > 1]
\* - 2*imagesMissingAlt - 3*unlabeledButtons - 5*headingOrderIssues), and at
\* most one of the two h1 penalties is taken.
C2_AccessibilityFormula ==
  \A c \in Returned(Accessibility) :
    /\ RecordOf(c).accessibilityScore =
         Max0(100 - 10 * Ind(RecordOf(c).h1Count = 0)
                  - 10 * Ind(RecordOf(c).h1Count > 1)
                  - 2 * RecordOf(c).imagesMissingAlt
                  - 3 * RecordOf(c).unlabeledButtons
                  - 5 * RecordOf(c).headingOrderIssues)
    /\ Ind(RecordOf(c).h1Count = 0) + Ind(RecordOf(c).h1Count > 1) <= 1

\* A page with two h1, a heading jump, an image without alt and an empty
\* button was scored
C2_Witness ==
  \E c \in Returned(Accessibility) :
    /\ RecordOf(c).h1Count = 2
    /\ RecordOf(c).imagesMissingAlt = 1
    /\ RecordOf(c).accessibilityScore = 88

\* The mean token count of the non-empty paragraphs of a page is above k
MeanTokensAbove(html, k) ==
  /\ Len(ParagraphTexts(html)) > 0
  /\ SumSeq(WordCounts(ParagraphTexts(html))) > k * Len(ParagraphTexts(html))

\* C3: scanabilityScore = 100 - 20 for each of: mean tokens per non-empty
\* paragraph > 100, imageCount = 0, headingCount = 0; so it is one of 40,
\* 60, 80, 100 and the clamp never changes it.
C3_ScanabilityFormula ==
  \A c \in Returned(Density) :
    /\ RecordOf(c).scanabilityScore =
         100 - 20 * Ind(MeanTokensAbove(PageOf(c), 100))
             - 20 * Ind(RecordOf(c).imageCount = 0)
             - 20 * Ind(RecordOf(c).headingCount = 0)
    /\ RecordOf(c).scanabilityScore \in { 40, 60, 80, 100 }

\* A page with one paragraph of more than 100 words, no image and no heading
\* was scored
C3_Witness ==
  \E c \in Returned(Density) :
    /\ MeanTokensAbove(PageOf(c), 100)
    /\ RecordOf(c).scanabilityScore = 40

\* The whole heading elements of the heading pages, and their levels
HeadingElems == << H1Elem, H2Elem, H3UpperElem, H5Elem >>

ElemLevels == << 1, 2, 3, 5 >>

\* Every sequence of at most n indices of HeadingElems
ElemSeqs(n) == UNION { [1..k -> DOMAIN HeadingElems] : k \in 0..n }

RECURSIVE PageOfElems(_)
PageOfElems(idx) ==
  IF Len(idx) = 0 THEN << >> ELSE HeadingElems[idx[1]] \o PageOfElems(Tail(idx))

\* The positions of a sequence of levels that rise by more than 2
JumpPositions(levels) ==
  { i \in 2..Len(levels) : levels[i] - levels[i - 1] > 2 }

\* Every page that is a sequence of whole heading elements, with its levels
ElemPages ==
  { [page |-> PageOfElems(idx), levels |-> [i \in 1..Len(idx) |-> ElemLevels[idx[i]]]] :
      idx \in ElemSeqs(MaxHeadPieces) }

\* C4: headingOrderIssues is the number of positions of the document-order
\* sequence of heading levels whose level exceeds the previous one by more
\* than 2; h1,h2,h5 gives 1 and h1,h2,h3 gives 0.
C4_HeadingOrderIssues ==
  \A c \in Returned(Accessibility) :
    /\ RecordOf(c).headingOrderIssues =
         Cardinality(JumpPositions(HeadingLevels(PageOf(c))))
    /\ \A e \in ElemPages :
         PageOf(c) = e.page =>
           RecordOf(c).headingOrderIssues = Cardinality(JumpPositions(e.levels))
    /\ PageOf(c) = H1Elem \o H2Elem \o H5Elem => RecordOf(c).headingOrderIssues = 1
    /\ PageOf(c) = H1Elem \o H2Elem \o H3UpperElem => RecordOf(c).headingOrderIssues = 0

\* The page h1, h2, h5 was scored, with one issue
C4_Witness ==
  \E c \in Returned(Accessibility) :
    /\ PageOf(c) = H1Elem \o H2Elem \o H5Elem
    /\ RecordOf(c).headingOrderIssues = 1

\* An attribute of an opening tag: its name stands after white space and is
\* followed by "=" and a quoted value.  The first one of a tag counts.
OwnAttrAt(tag, i, name) ==
  IF i > 1 /\ IsSpace(tag[i - 1]) /\ MatchesAt(tag, i, name)
    THEN FirstFound(AssignAt(tag, SkipSpaces(tag, i + Len(name)), "\""),
                    AssignAt(tag, SkipSpaces(tag, i + Len(name)), "'"))
    ELSE Null

OwnAttr(tag, name) ==
  OwnAttrAt(tag, MinOrZero({ i \in 1..Len(tag) : OwnAttrAt(tag, i, name).found }), name)

\* The alt attribute of an img tag is absent, or empty after trimming
OwnAltMissing(imgTag) == AltMissing(OwnAttr(imgTag, AltName))

\* C5: imagesMissingAlt is the number of img tags whose alt attribute is
\* absent or empty after trimming; an img tag with a non-empty quoted alt
\* value is never counted.
C5_ImagesMissingAlt ==
  \A c \in Returned(Accessibility) :
    RecordOf(c).imagesMissingAlt = Len(SelectSeq(ImgTags(PageOf(c)), OwnAltMissing))

\* An img tag with a data-alt attribute and no alt attribute was not counted
C5_Witness ==
  \E c \in Returned(Accessibility) :
    /\ PageOf(c) = ImgDataAlt
    /\ RecordOf(c).imagesMissingAlt = 0

\* The opening tag of a matched button fragment
OpeningTag(block) == SubSeq(block, 1, FirstChar(block, 1, ">"))

\* The visible text of a button is empty and the aria-label attribute of the
\* button is absent or empty
OwnUnlabeled(block) ==
  /\ VisibleText(block) = << >>
  /\ AriaMissing(OwnAttr(OpeningTag(block), AriaLabelName))

\* C6: unlabeledButtons is the number of matched button fragments whose
\* normalized inner text is empty and whose aria-label attribute is absent or
\* empty; a button with visible text or a non-empty aria-label is not counted.
C6_UnlabeledButtons ==
  \A c \in Returned(Accessibility) :
    RecordOf(c).unlabeledButtons =
      Len(SelectSeq(ButtonBlocks(PageOf(c)), OwnUnlabeled))

\* An empty button around an element with an aria-label was not counted
C6_Witness ==
  \E c \in Returned(Accessibility) :
    /\ PageOf(c) = IconButton
    /\ RecordOf(c).unlabeledButtons = 0

\* The response of a call carries a status outside 200..299
NonSuccess(c) ==
  /\ calls[c].pc \notin { "idle", "fetch" }
  /\ calls[c].res # NoResponse
  /\ calls[c].res.status \notin 200..299

\* C7: a call whose retrieval returned a non-success status ends in a failure
\* that carries the status and the URL, and never holds a record.
C7_NonSuccessFails ==
  \A c \in CallIds :
    NonSuccess(c) =>
      /\ calls[c].pc \in { "responded", "failed" }
      /\ calls[c].out.kind # "record"
      /\ calls[c].pc = "responded" => calls[c].out = NoOutcome /\ ENABLED CheckOk(c)
      /\ calls[c].pc = "failed" =>
           /\ calls[c].out.kind = "error"
           /\ Len(calls[c].out.message) = 4
           /\ calls[c].out.message[2] = calls[c].url
           /\ calls[c].out.message[4] = calls[c].res.status

\* A call answered with 404 failed
C7_Witness ==
  \E c \in CallIds :
    /\ calls[c].pc = "failed"
    /\ calls[c].res.status = 404
    /\ calls[c].out = FetchError(calls[c].url, 404)

DensityFields ==
  { "url", "wordCount", "imageCount", "headingCount", "avgParagraphLength",
    "scanabilityScore", "notes" }

AccessibilityFields ==
  { "url", "h1Count", "imagesMissingAlt", "unlabeledButtons", "headingOrderIssues",
    "accessibilityScore", "notes" }

\* Every field of the record of a tool is there and holds a value of its kind
Complete(tool, url, record) ==
  /\ DOMAIN record = (IF tool = Density THEN DensityFields ELSE AccessibilityFields)
  /\ record.url = url
  /\ \A f \in DOMAIN record \ { "url", "notes" } : record[f] \in Nat
  /\ Len(record.notes) = (IF tool = Density THEN 3 ELSE 4)

\* C8: after a successful retrieval the scan of any page ends with a complete
\* record; a call that failed failed at the retrieval.
C8_ContentNeverFails ==
  \A c \in CallIds :
    /\ calls[c].pc = "text" => calls[c].res.status \in 200..299
    /\ calls[c].pc = "done" =>
         /\ calls[c].res.status \in 200..299
         /\ calls[c].out.kind = "record"
         /\ Complete(calls[c].tool, calls[c].url, calls[c].out.record)
    /\ calls[c].pc = "failed" =>
         /\ calls[c].out.kind = "error"
         /\ calls[c].res = NoResponse \/ calls[c].res.status \notin 200..299

\* The empty page, a page of text without tags and a page with an unclosed
\* tag are among the pages, and a page with an unclosed tag and a stray "<" was
\* scanned into a record
C8_Witness ==
  /\ { EmptyPage, X, POpen, ImgOpen, BtnOpen, H4Open, ImgSingleThenData, ImgMismatch }
       \subseteq Pool
  /\ \E c \in CallIds :
       /\ calls[c].pc = "done"
       /\ calls[c].res.body = POpen \o Lt
       /\ calls[c].out.kind = "record"

Alone(tool, url, res) ==
  IF res.status \in 200..299
    THEN IF tool = Density
           THEN [kind |-> "record", record |-> DensityRecord(url, res.body)]
           ELSE [kind |-> "record", record |-> AccessibilityRecord(url, res.body)]
    ELSE [kind |-> "error", message |-> << "Failed to fetch ", url, ": ", res.status >>]

\* Every call that ended on a response holds the outcome of a run alone
OwnOutcome ==
  \A c \in CallIds :
    calls[c].pc \in { "done", "failed" } /\ calls[c].res # NoResponse =>
      calls[c].out = Alone(calls[c].tool, calls[c].url, calls[c].res)

\* A step changes the state of one call only
OneCallSteps ==
  \E c \in CallIds : \A d \in CallIds \ { c } : calls'[d] = calls[d]

\* C10: under every interleaving of concurrent calls, the outcome of each call
\* is the outcome of a run alone on its own response, and a step of one call
\* leaves the state of the other calls alone.
C10_Independent == []OwnOutcome /\ [][OneCallSteps]_vars

\* A call returned its record while another call held another page
C10_Witness ==
  \E c \in CallIds, d \in CallIds :
    /\ calls[c].pc = "done"
    /\ calls[d].pc = "text"
    /\ calls[c].res.body # calls[d].res.body

LongNote == "Paragraphs are long; consider splitting large blocks of text."

NoImagesNote == "No images found; consider adding supporting visuals."

NoHeadingsNote == "No headings found; add subheadings to improve scanning."

\* C11: the paragraph-length note of a density record is the negative note
\* exactly when the paragraph-length penalty is taken (the mean token count
\* of the non-empty paragraphs is above 100); the image note and the heading
\* note are negative exactly when imageCount = 0 and headingCount = 0.
C11_NotesFollowPenalties ==
  \A c \in Returned(Density) :
    /\ RecordOf(c).notes[1] = LongNote <=> MeanTokensAbove(PageOf(c), 100)
    /\ RecordOf(c).notes[2] = NoImagesNote <=> RecordOf(c).imageCount = 0
    /\ RecordOf(c).notes[3] = NoHeadingsNote <=> RecordOf(c).headingCount = 0

\* A page with an image, a heading and one paragraph of 81 words got the
\* full score and the negative paragraph note
C11_Witness ==
  \E c \in Returned(Density) :
    /\ RecordOf(c).avgParagraphLength = 81
    /\ RecordOf(c).scanabilityScore = 100
    /\ RecordOf(c).notes[1] = LongNote

\* The texts of the notes of each dimension, in the order of the dimensions
DensityNoteTexts ==
  << { LongNote, "Paragraph length seems reasonable." },
     { NoImagesNote, "Contains imagery to break up text." },
     { NoHeadingsNote, "Has headings to guide the reader." } >>

AccessibilityNoteTexts ==
  << { "No <h1> found - every page should have a single main heading.",
       "Multiple <h1> elements found - usually you only want one.",
       "Single <h1> present" },
     { " image(s) missing alt text.", "All images appear to include alt text" },
     { " <button> element(s) have no visible text or aria-label.",
       "All buttons appear to have labels or aria-labels" },
     { " heading level jump(s) detected (e.g. h2 -> h5).",
       "Heading level progression mostly looks consistent" } >>

\* The text of an accessibility note, after its count if it has one
NoteText(note) == note[Len(note)]

\* C12: every density record has exactly 3 notes, in the order paragraph
\* length, image, heading; every accessibility record has exactly 4 notes, in
\* the order h1, alt text, button labeling, heading order.
C12_NotesCountAndOrder ==
  /\ \A c \in Returned(Density) :
       /\ Len(RecordOf(c).notes) = 3
       /\ \A k \in 1..3 : RecordOf(c).notes[k] \in DensityNoteTexts[k]
  /\ \A c \in Returned(Accessibility) :
       /\ Len(RecordOf(c).notes) = 4
       /\ \A k \in 1..4 : NoteText(RecordOf(c).notes[k]) \in AccessibilityNoteTexts[k]

\* A page that fails the alt-text and the heading-order check and passes the
\* h1 and the button check got its four notes
C12_Witness ==
  \E c \in Returned(Accessibility) :
    /\ RecordOf(c).h1Count = 1
    /\ RecordOf(c).imagesMissingAlt > 0
    /\ RecordOf(c).unlabeledButtons = 0
    /\ RecordOf(c).headingOrderIssues > 0
    /\ Len(RecordOf(c).notes) = 4

\* Every p fragment of a page, normalized, the empty ones included
AllParagraphs(html) == StripAll(getTagContents(html, <<"p">>))

\* The number of the p fragments that are not empty after normalization
NonEmptyParagraphs(html) ==
  Cardinality({ k \in 1..Len(AllParagraphs(html)) : AllParagraphs(html)[k] # << >> })

\* The tokens of all p fragments (an empty paragraph has none)
ParagraphTokens(html) == SumSeq(WordCounts(AllParagraphs(html)))

\* The mean tokens / n rounded to the nearest integer, halves up; 0 for n = 0
RoundedMean(tokens, n) == IF n = 0 THEN 0 ELSE (2 * tokens + n) \div (2 * n)

\* C13: avgParagraphLength is 0 when the page has no paragraph that is
\* non-empty after normalization, and otherwise the rounded mean of the token
\* counts over the non-empty paragraphs only: an empty paragraph counts
\* neither in the numerator nor in the denominator.
C13_AverageOfNonEmpty ==
  \A c \in Returned(Density) :
    /\ NonEmptyParagraphs(PageOf(c)) = 0 => RecordOf(c).avgParagraphLength = 0
    /\ RecordOf(c).avgParagraphLength =
         RoundedMean(ParagraphTokens(PageOf(c)), NonEmptyParagraphs(PageOf(c)))

\* A page with a paragraph of white space and a paragraph of two words has
\* the average 2
C13_Witness ==
  \E c \in Returned(Density) :
    /\ PageOf(c) = BlankPara \o ParaElem
    /\ RecordOf(c).avgParagraphLength = 2

\* C14: stripTags is idempotent: stripTags(stripTags(s)) = stripTags(s) for
\* every paragraph content s the scorer normalizes, stray and nested "<" and
\* ">" included.
C14_StripTagsIdempotent ==
  \A c \in Returned(Density) :
    \A k \in 1..Len(getTagContents(PageOf(c), <<"p">>)) :
      stripTags(stripTags(getTagContents(PageOf(c), <<"p">>)[k]))
        = stripTags(getTagContents(PageOf(c), <<"p">>)[k])

\* The paragraph content <<>> was normalized to ">"
C14_Witness ==
  \E c \in Returned(Density) :
    /\ PageOf(c) = POpen \o Lt \o Lt \o Gt \o Gt \o PClose
    /\ getTagContents(PageOf(c), <<"p">>) = << Lt \o Lt \o Gt \o Gt >>
    /\ stripTags(Lt \o Lt \o Gt \o Gt) = Gt
    /\ RecordOf(c).wordCount = 1

\* C15: wordCount is the sum, over the paragraphs that are non-empty after
\* normalization, of the paragraph's token count: the join before the split
\* merges no two tokens and makes no empty token.
C15_WordCountIsSum ==
  \A c \in Returned(Density) :
    /\ RecordOf(c).wordCount = ParagraphTokens(PageOf(c))
    /\ RecordOf(c).wordCount = SumSeq(WordCounts(ParagraphTexts(PageOf(c))))

\* A page of two paragraphs of two words each has the word count 4
C15_Witness ==
  \E c \in Returned(Density) :
    /\ PageOf(c) = ParaElem \o HelloWorld
    /\ Len(ParagraphTexts(PageOf(c))) = 2
    /\ RecordOf(c).wordCount = 4

PName == <<"p">>

\* An opening tag of the name stands at position i of s: "<", the name in any
\* letter case, and no word character after it
OpensAt(s, i, tag) ==
  /\ MatchesAt(s, i, <<"<">> \o tag)
  /\ ~(WordAt(s, i + Len(tag)) /\ WordAt(s, i + Len(tag) + 1))

\* The closing tag of the name stands at position i of s
ClosesAt(s, i, tag) == MatchesAt(s, i, <<"<", "/">> \o tag \o <<">">>)

\* An occurrence of the tag could start at i: an opening tag, a ">" after it
\* and a closing tag after that ">"
OccursAt(s, i, tag) ==
  /\ OpensAt(s, i, tag)
  /\ \E g \in (i + Len(tag) + 1)..Len(s) :
       s[g] = ">" /\ \E k \in (g + 1)..Len(s) : ClosesAt(s, k, tag)

\* The occurrence m of the tag in s is well formed: it starts at an opening
\* tag that ends at the first ">", and it ends with the first closing tag
\* after that
WellFormed(s, m, tag) ==
  /\ OpensAt(s, m.start, tag)
  /\ s[m.openEnd] = ">"
  /\ \A g \in (m.start + Len(tag) + 1)..(m.openEnd - 1) : s[g] # ">"
  /\ ClosesAt(s, m.closeStart, tag)
  /\ m.closeStart > m.openEnd
  /\ \A k \in (m.openEnd + 1)..(m.closeStart - 1) : ~ClosesAt(s, k, tag)
  /\ m.end = m.closeStart + Len(tag) + 2

\* The occurrences ms of the tag in s are in document order, do not overlap,
\* and leave no occurrence out that starts outside them
InOrderAndComplete(s, ms, tag) ==
  /\ \A k \in 1..(Len(ms) - 1) : ms[k].end < ms[k + 1].start
  /\ \A i \in 1..Len(s) :
       OccursAt(s, i, tag) => \E k \in 1..Len(ms) : ms[k].start <= i /\ i <= ms[k].end

\* The list of contents of the occurrences ms of s
ContentsOf(s, ms, contents) ==
  /\ Len(contents) = Len(ms)
  /\ \A k \in 1..Len(ms) :
       contents[k] = SubSeq(s, ms[k].openEnd + 1, ms[k].closeStart - 1)

\* C16: getTagContents(html, tag) is the list of the inner contents of the
\* occurrences of the tag in document order; the occurrences do not overlap,
\* each ends at the first closing tag after its opening tag (a nested tag of
\* the same name is cut at the inner closing tag), the name is matched in any
\* letter case, and the list is empty when there is no occurrence.
C16_GetTagContents ==
  \A c \in Returned(Density) :
    /\ \A k \in 1..Len(TagMatches(PageOf(c), PName)) :
         WellFormed(PageOf(c), TagMatches(PageOf(c), PName)[k], PName)
    /\ InOrderAndComplete(PageOf(c), TagMatches(PageOf(c), PName), PName)
    /\ ContentsOf(PageOf(c), TagMatches(PageOf(c), PName),
                  getTagContents(PageOf(c), PName))
    /\ (\A i \in 1..Len(PageOf(c)) : ~OccursAt(PageOf(c), i, PName))
         => getTagContents(PageOf(c), PName) = << >>
    /\ PageOf(c) = UpperPara => getTagContents(PageOf(c), PName) = << X >>
    /\ PageOf(c) = POpen \o ParaElem
         => getTagContents(PageOf(c), PName) = << POpen \o <<"x", " ", "y">> >>
    /\ PageOf(c) = ParaElem \o ParaElem
         => getTagContents(PageOf(c), PName) = << <<"x", " ", "y">>, <<"x", " ", "y">> >>

\* A page with a p tag opened inside a p tag was read up to the inner closing tag
C16_Witness ==
  \E c \in Returned(Density) :
    /\ PageOf(c) = POpen \o ParaElem
    /\ Len(getTagContents(PageOf(c), PName)) = 1
    /\ RecordOf(c).wordCount = 2

\* The opening heading tag at position i of s has a closing tag of its level
\* somewhere after it
HeadingClosedLater(s, i) ==
  \E k \in (i + 3)..Len(s) : ClosesAt(s, k, <<"h", s[i + 2]>>)

\* The positions of the opening heading tags of s that have a closing tag
ClosedHeadings(s) ==
  { i \in 1..Len(s) : HeadingOpenAt(s, i) /\ HeadingClosedLater(s, i) }

\* The positions of the opening h1 tags of s that have a closing tag
ClosedH1s(s) == { i \in ClosedHeadings(s) : s[i + 2] = "1" }

\* C17: an opening heading tag without a closing tag is matched by neither
\* scorer: the density headingCount, h1Count and the sequence of heading
\* levels count opening tags that have a closing tag only.
C17_UnclosedHeadingsNotMatched ==
  /\ \A c \in Returned(Density) :
       RecordOf(c).headingCount <= Cardinality(ClosedHeadings(PageOf(c)))
  /\ \A c \in Returned(Accessibility) :
       /\ RecordOf(c).h1Count <= Cardinality(ClosedH1s(PageOf(c)))
       /\ Len(HeadingLevels(PageOf(c))) <= Cardinality(ClosedHeadings(PageOf(c)))
       /\ ClosedHeadings(PageOf(c)) = {} => RecordOf(c).headingOrderIssues = 0

\* The page <h4> with no closing tag has the heading count 1
C17_Witness ==
  \E c \in Returned(Density) :
    /\ PageOf(c) = H4Open
    /\ ClosedHeadings(PageOf(c)) = {}
    /\ RecordOf(c).headingCount = 1

\* A call that has started has run one retrieval; a call that scans or has
\* scanned holds the successful response of that retrieval
OneRetrieval ==
  \A c \in CallIds :
    /\ calls[c].fetches = (IF calls[c].pc = "idle" THEN 0 ELSE 1)
    /\ calls[c].pc \in { "text", "done" } =>
         /\ calls[c].res # NoResponse
         /\ calls[c].res.status \in 200..299
    /\ calls[c].pc = "failed" => calls[c].out.kind = "error"

\* A retrieval is started by the call of the tool only, and a record appears
\* only in a step that starts from a successful response
ScanAfterRetrieval ==
  \A c \in CallIds :
    /\ calls'[c].fetches # calls[c].fetches => calls[c].pc = "idle"
    /\ calls'[c].out.kind = "record" /\ calls[c].out.kind # "record" =>
         /\ calls[c].pc = "text"
         /\ calls[c].res.status \in 200..299
         /\ calls'[c].res = calls[c].res
    /\ calls[c].pc = "failed" => calls'[c] = calls[c]

\* C18: each call runs exactly one retrieval and never retries it, and the
\* scan starts only after that retrieval has completed with success; no scan
\* follows a failed retrieval or precedes the response.
C18_OneRetrievalThenScan == []OneRetrieval /\ [][ScanAfterRetrieval]_vars

\* One call returned its record after its one retrieval while the retrieval
\* of another call failed
C18_Witness ==
  \E c \in CallIds, d \in CallIds :
    /\ calls[c].pc = "done"
    /\ calls[c].fetches = 1
    /\ calls[d].pc = "failed"
    /\ calls[d].fetches = 1
    /\ calls[d].out = NetworkError

\* A matched button fragment with no visible text whose own opening tag
\* carries no aria-label attribute
BareButton(block) ==
  /\ VisibleText(block) = << >>
  /\ ~OwnAttr(OpeningTag(block), AriaLabelName).found

\* C19: the aria-label of a button is read from the opening tag of the button
\* only: a button without visible text and without an aria-label of its own
\* is counted as unlabeled, whatever aria-label an element nested in it has.
C19_OwnAriaLabelOnly ==
  \A c \in Returned(Accessibility) :
    RecordOf(c).unlabeledButtons >= Len(SelectSeq(ButtonBlocks(PageOf(c)), BareButton))

\* Of an empty button and an empty button around a labeled icon, one was
\* counted
C19_Witness ==
  \E c \in Returned(Accessibility) :
    /\ PageOf(c) = EmptyButton \o IconButton
    /\ Len(SelectSeq(ButtonBlocks(PageOf(c)), BareButton)) = 2
    /\ RecordOf(c).unlabeledButtons = 1

\* The scorer's value of the alt attribute of an img tag is the value of the
\* attribute named alt of that tag
ReadsOwnAlt(imgTag) == AttrValue(imgTag, AltName) = OwnAttr(imgTag, AltName)

\* C20: the value read for alt is the value of the attribute named exactly
\* alt: an attribute whose name ends in -alt is not taken for it, and a
\* double-quoted value elsewhere does not override the tag's single-quoted alt.
C20_ExactAttributeName ==
  \A c \in Returned(Accessibility) :
    /\ Len(SelectSeq(ImgTags(PageOf(c)), ReadsOwnAlt)) = Len(ImgTags(PageOf(c)))
    /\ PageOf(c) = ImgSingleThenData => RecordOf(c).imagesMissingAlt = 0

\* An img tag with alt='c' and an empty double-quoted data-alt was counted as
\* missing its alt text
C20_Witness ==
  \E c \in Returned(Accessibility) :
    /\ PageOf(c) = ImgSingleThenData
    /\ OwnAttr(PageOf(c), AltName).value = <<"c">>
    /\ RecordOf(c).imagesMissingAlt = 1

\* C21: each score can be recomputed from the other fields of its record:
\* accessibilityScore from h1Count, imagesMissingAlt, unlabeledButtons and
\* headingOrderIssues, and scanabilityScore from the reported
\* avgParagraphLength, imageCount and headingCount; the paragraph penalty is
\* taken exactly when the reported avgParagraphLength is greater than 100.
C21_ScoresFromFields ==
  /\ \A c \in Returned(Accessibility) :
       RecordOf(c).accessibilityScore =
         Max0(100 - 10 * Ind(RecordOf(c).h1Count # 1)
                  - 2 * RecordOf(c).imagesMissingAlt
                  - 3 * RecordOf(c).unlabeledButtons
                  - 5 * RecordOf(c).headingOrderIssues)
  /\ \A c \in Returned(Density) :
       RecordOf(c).scanabilityScore =
         Max0(100 - 20 * Ind(RecordOf(c).avgParagraphLength > 100)
                  - 20 * Ind(RecordOf(c).imageCount = 0)
                  - 20 * Ind(RecordOf(c).headingCount = 0))

\* A page with an image, a heading and paragraphs of 100, 100 and 101 words
\* was scored: the reported average is 100 and the paragraph penalty is taken
C21_Witness ==
  \E c \in Returned(Density) :
    /\ WordCounts(ParagraphTexts(PageOf(c))) = << MaxWords - 1, MaxWords - 1, MaxWords >>
    /\ RecordOf(c).avgParagraphLength = 100
    /\ RecordOf(c).imageCount = 1
    /\ RecordOf(c).headingCount = 1
    /\ RecordOf(c).scanabilityScore = 80

IsLevelOne(level) == level = 1

\* The number of level-1 entries of the heading-level sequence of a page
LevelOnes(html) == Len(SelectSeq(HeadingLevels(html), IsLevelOne))

\* C22: the two scorers agree on the same markup: imagesMissingAlt is never
\* greater than the density imageCount, h1Count is the number of level-1
\* entries of the heading-level sequence of the heading-order check, and the
\* length of that sequence is the density headingCount.
C22_ScorersAgree ==
  /\ \A c \in Returned(Accessibility) :
       /\ RecordOf(c).imagesMissingAlt <= DensityRecord(calls[c].url, PageOf(c)).imageCount
       /\ RecordOf(c).h1Count = LevelOnes(PageOf(c))
  /\ \A c \in Returned(Density) :
       RecordOf(c).headingCount = Len(HeadingLevels(PageOf(c)))

\* An h1 element inside an h4 element was scored: one h1 is counted, and the
\* heading-level sequence holds the h4 alone
C22_Witness ==
  \E c \in Returned(Accessibility) :
    /\ PageOf(c) = H4Open \o H1Elem \o H4Close
    /\ RecordOf(c).h1Count = 1
    /\ HeadingLevels(PageOf(c)) = << 4 >>
    /\ DensityRecord(calls[c].url, PageOf(c)).headingCount = 2

====
